---- MODULE Spec2Model ----
(***************************************************************************)
(* A model of CodePlagDetector: the per-student comparison loop of         *)
(* CodePlagiarismDetector.run (codeplagiarism.py), the batched upload of   *)
(* upload_reports, and the latest-attempt selection of                     *)
(* filter_files_for_codeeval (utils.py).                                   *)
(*                                                                         *)
(* File paths are records [dir, stem, ext]; similarities are percentages;  *)
(* the empty string is the empty sequence <<>>.  The fingerprinting        *)
(* library (copydetect) and S3 are outside the repository: what they       *)
(* return is drawn from small sets, and a call to them may raise.          *)
(***************************************************************************)
EXTENDS Integers, Sequences, FiniteSets, TLC

\* ---------------------------------------------------------------- bounds
NumStudents == 3
MaxFreq == 3
MaxHash == 2
MaxObjs == 3
MaxAttempt == 2
NumUsers == 2

\* ------------------------------------------------------ program constants
\* display_t=0.33, the default of __init__, as a percentage
DisplayT == 33
\* CopyDetector(..., ignore_leaf=True, ...)
ignore_leaf == TRUE

VARIABLES
  \* configuration of the scan
  same_name_only, update_frequency,
  \* the report directory on disk: the students whose <student>.json exists
  reportFiles,
  \* position of run(): "loop" (between students), "files" (inside one
  \* student's comparisons), "done" (run returned), "failed" (an exception
  \* left run(): raised names the call that raised it)
  pc, raised, si, fi, ri,
  \* locals of run()
  results, copied_hashes, result_dict, user_reports,
  \* what the outside world saw in this run: the batch updates the status
  \* sink received, the report files uploaded, the comparator calls made
  flushes, uploaded, compared,
  \* history of this run: the report files at its start, how the previous
  \* run ended, the reports it wrote, the students it completed, the test
  \* files with an above-threshold result, what the comparator returned
  \* in the step just taken (NoCmp after any other step)
  reportsAtStart, prior, written, completed, qualified, lastCmp,
  \* filter_files_for_codeeval: the listed objects and its locals
  objs, oi, files_dict, user_latest_attempt, selPc,
  \* initialize(): whether the bucket lists an object under sprefix and
  \* under bprefix, the fsd flag, whether the detector found test files and
  \* reference files, and the statuses pushed to update_url
  sListed, bListed, fsd, testFound, refFound, statusPushes,
  \* the pushes that did not reach the status sink and were only logged
  sinkLog,
  \* the users_to_scan the detector was constructed with
  users_to_scan,
  \* the aggregation of one test file over its references, applied to one
  \* set of comparator results in two reference orders
  aggTest, aggCmp, aggPerm, aggOut

runVars == <<same_name_only, update_frequency, reportFiles, pc, raised, si,
             fi, ri,
             results, copied_hashes, result_dict, user_reports, flushes,
             uploaded, compared, reportsAtStart, prior, written, completed,
             qualified, lastCmp>>
selVars == <<objs, oi, files_dict, user_latest_attempt, selPc>>
lifeVars == <<sListed, bListed, fsd, testFound, refFound, statusPushes,
             sinkLog, users_to_scan>>
aggVars == <<aggTest, aggCmp, aggPerm, aggOut>>
vars == <<runVars, selVars, lifeVars, aggVars>>

\* ------------------------------------------------------------- the files
F(d, s, e) == [dir |-> d, stem |-> s, ext |-> e]

\* Path(f).name, Path(f).parent, Path(f).suffix
Name(f) == <<f.stem, f.ext>>
Parent(f) == f.dir
Suffix(f) == f.ext

Students == 1..NumStudents

\* test_files_student_dict: the test files grouped by the users/<id>/ of
\* their path, in the order the detector lists them
TestFilesOf(s) ==
  IF s = 1 THEN <<F(1, "Main", "java"), F(1, "Helper", "java")>>
  ELSE IF s = 2 THEN <<F(2, "Main", "java")>>
  ELSE IF s = 3 THEN <<F(3, "Main", "py"), F(3, "Notes", "py")>>
  ELSE <<F(s, "Main", "py")>>

\* the order test_files_student_dict.items() yields the students in
GroupOrder == [i \in 1..NumStudents |-> i]

\* users_to_scan=None, and a list as the set of its elements
None == [none |-> TRUE, list |-> {}]
UserList(S) == [none |-> FALSE, list |-> S]

ScanAllNoneOnly(uts) == uts.none

\* self.users_to_scan is None or (isinstance(self.users_to_scan, list) and
\* len(self.users_to_scan)==0)
ScanAll(uts) == uts.none \/ (~uts.none /\ Cardinality(uts.list) = 0)

\* int(student): the model names a student by the number its users/<id>/
\* digits denote
IntOf(st) == st

\* isinstance(self.users_to_scan, list) and int(student) in self.users_to_scan
InList(uts, st) == ~uts.none /\ IntOf(st) \in uts.list

\* final_test_files_student_dict has the student: it is the whole
\* test_files_student_dict in a full scan, and the loop over
\* test_files_student_dict adds the students of the list
InFinal(st) == ScanAll(users_to_scan) \/ InList(users_to_scan, st)

\* the order final_test_files_student_dict.items() yields the students in
Order == SelectSeq(GroupOrder, InFinal)

\* detector.ref_files: boilerplate files (directory 0) and a file that is
\* also a test file
ref_files ==
  <<F(0, "Main", "java"), F(1, "Main", "java"),
    F(0, "Helper", "java"), F(0, "Main", "py")>>

AllFiles ==
  {ref_files[i] : i \in 1..Len(ref_files)} \cup
  UNION {{TestFilesOf(s)[i] : i \in 1..Len(TestFilesOf(s))} : s \in Students}

\* detector.file_data after _preprocess_code: the files that were
\* fingerprinted; fingerprinting skipped two of them
FileData == AllFiles \ {F(0, "Helper", "java"), F(3, "Notes", "py")}

Hashes == 1..MaxHash

\* file_data[f].hashes
HashesOf(f) == Hashes

\* the similarities around the display threshold
Sims == {DisplayT - 1, DisplayT, DisplayT + 1}

\* what compare_files can return for a pair: hashes_overlap1 and (sim1, sim2)
CompareResults(test_f, ref_f) ==
  [hashes_overlap1 : SUBSET HashesOf(test_f), sim1 : Sims, sim2 : Sims]

\* ------------------------------------------------- the candidate pair test
ExcludedNoLeaf(test_f, ref_f) ==
  \/ test_f \notin FileData \/ ref_f \notin FileData
  \/ test_f = ref_f
  \/ (same_name_only /\ Name(test_f) # Name(ref_f))
  \/ Suffix(test_f) # Suffix(ref_f)

\* the condition of the `continue` at the head of the reference loop
Excluded(test_f, ref_f) ==
  \/ test_f \notin FileData \/ ref_f \notin FileData
  \/ test_f = ref_f
  \/ (same_name_only /\ Name(test_f) # Name(ref_f))
  \/ (ignore_leaf /\ Parent(test_f) = Parent(ref_f))
  \/ Suffix(test_f) # Suffix(ref_f)

AboveThresholdLoose(sim1, sim2) == sim1 >= DisplayT \/ sim2 >= DisplayT

\* sim1 > display_t or sim2 > display_t
AboveThreshold(sim1, sim2) == sim1 > DisplayT \/ sim2 > DisplayT

Union1dOverwrite(a, b) == b

\* np.union1d
Union1d(a, b) == a \cup b

\* len(copied_hashes)/len(file_data[test_f].hashes), as the pair
\* <<numerator, denominator>>
Score(copied, test_f) == <<Cardinality(copied), Cardinality(HashesOf(test_f))>>

RecordFileAlways(copied, res) == TRUE

\* len(copied_hashes) > 0 and len(results) > 0
RecordFile(copied, res) == Cardinality(copied) > 0 /\ Len(res) > 0

ReportExistsNever(student) == FALSE

\* studentReportPath.exists()
ReportExists(student) == student \in reportFiles

\* studentReportPath
ReportPath(student) == <<"Reports", student>>

\* Path(report_file).name
PathName(report_file) ==
  IF report_file = <<>> THEN <<>> ELSE <<report_file[Len(report_file)]>>

\* "{}{}/{}/{}".format(sprefix, reportDir, scanID, Path(report_file).name)
S3Key(report_file) == <<"Reports">> \o PathName(report_file)

\* final_reports of upload_reports: student -> s3_key, in upload order
FinalReports(ur) ==
  [i \in 1..Len(ur) |->
     [student |-> ur[i].student, s3_key |-> S3Key(ur[i].report_file)]]

StudentsIn(ur) == {ur[i].student : i \in 1..Len(ur)}

FlushDueLate(ur) == Len(ur) = update_frequency + 1

\* len(user_reports) == self.update_frequency
FlushDue(ur) == Len(ur) = update_frequency

RemainingAlways(ur) == TRUE

\* len(user_reports) > 0, the guard of the upload after the loop
Remaining(ur) == Len(ur) > 0

NoCmp == [test_f |-> <<>>, ref_f |-> <<>>, hashes_overlap1 |-> {},
          sim1 |-> 0, sim2 |-> 0]
EmptyDict == [f \in {} |-> <<>>]

\* the orders in which a sequence can present the elements of the set S
Listings(S) == {q \in [1..Cardinality(S) -> S] : {q[i] : i \in DOMAIN q} = S}

\* ------------------------------------------------------------ run(): Init
\* the state of a fresh process entering the loop of run()
FreshRun ==
  /\ pc = "loop" /\ raised = "" /\ si = 1 /\ fi = 1 /\ ri = 1
  /\ results = <<>> /\ copied_hashes = {} /\ result_dict = EmptyDict
  /\ user_reports = <<>>
  /\ flushes = <<>> /\ uploaded = {} /\ compared = {}
  /\ written = {} /\ completed = <<>> /\ qualified = {} /\ lastCmp = NoCmp

SelIdle ==
  /\ objs = <<>> /\ oi = 1 /\ selPc = "idle"
  /\ files_dict = EmptyDict /\ user_latest_attempt = EmptyDict

\* make_request(update_url, 'UPDATE', data): the status sink receives data
make_request(sink, data) == Append(sink, data)

DownloadedStatusWrong == "COMPLETED"

\* the 'status' of the data pushed by initialize()
DownloadedStatus == "DOWNLOADED"

\* the state initialize() leaves when it returns: both prefixes listed
\* objects, the detector found test and reference files, and the status
\* DOWNLOADED was pushed
Initialized ==
  /\ sListed = TRUE /\ bListed = TRUE /\ fsd = FALSE
  /\ testFound = TRUE /\ refFound = TRUE
  /\ statusPushes = make_request(<<>>, DownloadedStatus)
  /\ sinkLog = <<>>
  /\ users_to_scan = None

\* inside download_files(): both prefixes listed objects, nothing has been
\* pushed to the status sink yet
Downloading ==
  /\ sListed = TRUE /\ bListed = TRUE /\ fsd = FALSE
  /\ testFound = TRUE /\ refFound = TRUE
  /\ statusPushes = <<>> /\ sinkLog = <<>>
  /\ users_to_scan = None

AggIdle ==
  /\ aggTest = <<>> /\ aggCmp = <<>> /\ aggPerm = <<>> /\ aggOut = <<>>

Init ==
  /\ same_name_only \in BOOLEAN
  /\ update_frequency \in 1..MaxFreq
  /\ reportFiles = {}
  /\ reportsAtStart = {}
  /\ prior = "none"
  /\ FreshRun
  /\ SelIdle
  /\ Initialized
  /\ AggIdle

student == Order[si]
test_files == TestFilesOf(student)
test_f == test_files[fi]
ref_f == ref_files[ri]

\* the locals of one iteration of the student loop are dead once the
\* iteration ends or an exception leaves run(): the next iteration starts
\* from result_dict = {}
DropLocals ==
  /\ fi' = 1 /\ ri' = 1
  /\ results' = <<>> /\ copied_hashes' = {} /\ result_dict' = EmptyDict
  /\ qualified' = {} /\ lastCmp' = NoCmp

\* ----------------------------------------------------------- run(): steps
\* `if studentReportPath.exists(): continue`
SkipStudent ==
  /\ pc = "loop" /\ si <= Len(Order)
  /\ ReportExists(student)
  /\ si' = si + 1
  /\ UNCHANGED <<raised, same_name_only, update_frequency, reportFiles, pc,
                 fi, ri,
                 results, copied_hashes, result_dict, user_reports, flushes,
                 uploaded, compared, reportsAtStart, prior, written,
                 completed, qualified, lastCmp, selVars, lifeVars,
                 aggVars>>

\* a student without a report: result_dict = {} and the file loop starts
BeginStudent ==
  /\ pc = "loop" /\ si <= Len(Order)
  /\ ~ReportExists(student)
  /\ pc' = "files" /\ fi' = 1 /\ ri' = 1
  /\ result_dict' = EmptyDict /\ results' = <<>> /\ copied_hashes' = {}
  /\ qualified' = {} /\ lastCmp' = NoCmp
  /\ UNCHANGED <<raised, same_name_only, update_frequency, reportFiles, si,
                 user_reports, flushes, uploaded, compared, reportsAtStart,
                 prior, written, completed, selVars, lifeVars,
                 aggVars>>

InPair == pc = "files" /\ fi <= Len(test_files) /\ ri <= Len(ref_files)

\* the `continue` of an excluded pair
SkipPair ==
  /\ InPair
  /\ Excluded(test_f, ref_f)
  /\ ri' = ri + 1
  /\ lastCmp' = NoCmp
  /\ UNCHANGED <<raised, same_name_only, update_frequency, reportFiles, pc,
                 si, fi,
                 results, copied_hashes, result_dict, user_reports, flushes,
                 uploaded, compared, reportsAtStart, prior, written,
                 completed, qualified, selVars, lifeVars,
                 aggVars>>

\* compare_files returns, and the result is kept if above the threshold
ComparePair ==
  /\ InPair
  /\ ~Excluded(test_f, ref_f)
  /\ \E r \in CompareResults(test_f, ref_f) :
       /\ compared' = compared \cup {<<test_f, ref_f>>}
       /\ lastCmp' = [test_f |-> test_f, ref_f |-> ref_f,
                      hashes_overlap1 |-> r.hashes_overlap1,
                      sim1 |-> r.sim1, sim2 |-> r.sim2]
       /\ qualified' = IF r.sim1 > DisplayT \/ r.sim2 > DisplayT
                         THEN qualified \cup {test_f} ELSE qualified
       /\ IF AboveThreshold(r.sim1, r.sim2)
            THEN /\ results' = Append(results,
                                 [ref_file |-> ref_f,
                                  test_similarity |-> r.sim1,
                                  ref_similarity |-> r.sim2,
                                  hashes_overlap1 |-> r.hashes_overlap1])
                 /\ copied_hashes' = Union1d(copied_hashes, r.hashes_overlap1)
            ELSE UNCHANGED <<results, copied_hashes>>
  /\ ri' = ri + 1
  /\ UNCHANGED <<raised, same_name_only, update_frequency, reportFiles, pc,
                 si, fi,
                 result_dict, user_reports, flushes, uploaded,
                 reportsAtStart, prior, written, completed, selVars, lifeVars,
                 aggVars>>

\* compare_files raises: run() has no handler, the exception leaves it
ComparatorRaises ==
  /\ InPair
  /\ ~Excluded(test_f, ref_f)
  /\ compared' = compared \cup {<<test_f, ref_f>>}
  /\ pc' = "failed" /\ raised' = "compare_files"
  /\ DropLocals
  /\ UNCHANGED <<same_name_only, update_frequency, reportFiles, si,
                 user_reports, flushes, uploaded, reportsAtStart, prior,
                 written, completed, selVars, lifeVars,
                 aggVars>>

\* the references are exhausted for a test file: its score, if any
FinishFile ==
  /\ pc = "files" /\ fi <= Len(test_files) /\ ri > Len(ref_files)
  /\ result_dict' =
       IF RecordFile(copied_hashes, results)
         THEN (test_f :> [score |-> Score(copied_hashes, test_f),
                          results |-> results]) @@ result_dict
         ELSE result_dict
  /\ fi' = fi + 1 /\ ri' = 1
  /\ results' = <<>> /\ copied_hashes' = {} /\ lastCmp' = NoCmp
  /\ UNCHANGED <<raised, same_name_only, update_frequency, reportFiles, pc, si,
                 user_reports, flushes, uploaded, compared, reportsAtStart,
                 prior, written, completed, qualified, selVars, lifeVars,
                 aggVars>>

RecordedFlaggedOnly ==
  IF DOMAIN result_dict # {}
    THEN Append(user_reports,
                [student |-> student, report_file |-> ReportPath(student)])
    ELSE user_reports

\* user_reports once the student is recorded: the report path when
\* result_dict is not empty, '' otherwise
Recorded ==
  Append(user_reports,
         [student |-> student,
          report_file |-> IF DOMAIN result_dict # {}
                            THEN ReportPath(student) ELSE <<>>])

AtStudentEnd == pc = "files" /\ fi > Len(test_files)

WriteReportSkipped == UNCHANGED <<reportFiles, written>>

\* the report is written when result_dict is not empty
WriteReport ==
  /\ reportFiles' = IF DOMAIN result_dict # {}
                      THEN reportFiles \cup {student} ELSE reportFiles
  /\ written' = IF DOMAIN result_dict # {}
                  THEN written \cup {student} ELSE written

\* all files of the student are scanned: the report is written, the student
\* recorded, and the batch uploaded when it reaches update_frequency
FinishStudent ==
  /\ AtStudentEnd
  /\ WriteReport
  /\ IF FlushDue(Recorded)
       THEN /\ uploaded' = uploaded \cup StudentsIn(Recorded)
            /\ flushes' = Append(flushes, [kind |-> "auto",
                                           reports |-> FinalReports(Recorded)])
            /\ user_reports' = <<>>
       ELSE /\ user_reports' = Recorded
            /\ UNCHANGED <<uploaded, flushes>>
  /\ completed' = Append(completed, student)
  /\ pc' = "loop" /\ si' = si + 1
  /\ DropLocals
  /\ UNCHANGED <<raised, same_name_only, update_frequency, compared,
                 reportsAtStart,
                 prior, selVars, lifeVars,
                 aggVars>>

FinishStudentPushFirst ==
  /\ AtStudentEnd
  /\ FlushDue(Recorded)
  /\ WriteReport
  /\ flushes' = Append(flushes, [kind |-> "auto",
                                 reports |-> FinalReports(Recorded)])
  /\ \E k \in 1..Len(Recorded) :
       uploaded' = uploaded \cup StudentsIn(SubSeq(Recorded, 1, k - 1))
  /\ user_reports' = Recorded
  /\ pc' = "failed" /\ raised' = "upload_file"
  /\ DropLocals
  /\ UNCHANGED <<same_name_only, update_frequency, si, compared,
                 reportsAtStart, prior, completed, selVars, lifeVars,
                 aggVars>>

\* upload_file raises on the k-th report of the batch: upload_reports and
\* run() have no handler, the exception leaves run()
FinishStudentUploadRaises ==
  /\ AtStudentEnd
  /\ FlushDue(Recorded)
  /\ WriteReport
  /\ \E k \in 1..Len(Recorded) :
       uploaded' = uploaded \cup StudentsIn(SubSeq(Recorded, 1, k - 1))
  /\ user_reports' = Recorded
  /\ pc' = "failed" /\ raised' = "upload_file"
  /\ DropLocals
  /\ UNCHANGED <<same_name_only, update_frequency, si, flushes, compared,
                 reportsAtStart, prior, completed, selVars, lifeVars,
                 aggVars>>

AtLoopEnd == pc = "loop" /\ si > Len(Order)

FinalFlushSkipped ==
  /\ AtLoopEnd
  /\ pc' = "done"
  /\ UNCHANGED <<raised, same_name_only, update_frequency, reportFiles, si,
                 fi, ri,
                 results, copied_hashes, result_dict, user_reports, flushes,
                 uploaded, compared, reportsAtStart, prior, written,
                 completed, qualified, lastCmp, selVars, lifeVars, aggVars>>

\* after the loop: the remaining reports (if any) are uploaded
FinalFlush ==
  /\ AtLoopEnd
  /\ IF Remaining(user_reports)
       THEN /\ uploaded' = uploaded \cup StudentsIn(user_reports)
            /\ flushes' = Append(flushes, [kind |-> "final",
                                  reports |-> FinalReports(user_reports)])
       ELSE UNCHANGED <<uploaded, flushes>>
  /\ pc' = "done"
  /\ UNCHANGED <<raised, same_name_only, update_frequency, reportFiles, si,
                 fi, ri,
                 results, copied_hashes, result_dict, user_reports, compared,
                 reportsAtStart, prior, written, completed, qualified,
                 lastCmp, selVars, lifeVars,
                 aggVars>>

\* upload_file raises during the upload after the loop
FinalFlushUploadRaises ==
  /\ AtLoopEnd
  /\ Remaining(user_reports)
  /\ \E k \in 1..Len(user_reports) :
       uploaded' = uploaded \cup StudentsIn(SubSeq(user_reports, 1, k - 1))
  /\ pc' = "failed" /\ raised' = "upload_file"
  /\ UNCHANGED <<same_name_only, update_frequency, reportFiles, si, fi, ri,
                 results, copied_hashes, result_dict, user_reports, flushes,
                 compared, reportsAtStart, prior, written, completed,
                 qualified, lastCmp, selVars, lifeVars,
                 aggVars>>

\* the scan is started again with the same scanID and inputs: a new process
\* runs the loop over the report directory the earlier runs left
Rerun ==
  /\ pc \in {"done", "failed"}
  /\ prior' = pc /\ raised' = ""
  /\ reportsAtStart' = reportFiles
  /\ pc' = "loop" /\ si' = 1 /\ fi' = 1 /\ ri' = 1
  /\ results' = <<>> /\ copied_hashes' = {} /\ result_dict' = EmptyDict
  /\ user_reports' = <<>>
  /\ flushes' = <<>> /\ uploaded' = {} /\ compared' = {}
  /\ written' = {} /\ completed' = <<>> /\ qualified' = {} /\ lastCmp' = NoCmp
  /\ UNCHANGED <<same_name_only, update_frequency, reportFiles, selVars, lifeVars,
                 aggVars>>

Next ==
  \/ SkipStudent
  \/ BeginStudent
  \/ SkipPair
  \/ ComparePair
  \/ ComparatorRaises
  \/ FinishFile
  \/ FinishStudent
  \/ FinishStudentUploadRaises
  \/ FinalFlush
  \/ FinalFlushUploadRaises
  \/ Rerun

Spec == Init /\ [][Next]_vars

\* ------------------------------------- an interrupted run and its resumption
\* a run that an exception ended is started again, once, with the same
\* scanID: a new process runs the loop over the report directory the first
\* run left; the status sink and the bucket keep what the first run sent
Resume ==
  /\ pc = "failed" /\ prior = "none"
  /\ prior' = "failed" /\ raised' = ""
  /\ reportsAtStart' = reportFiles
  /\ pc' = "loop" /\ si' = 1 /\ fi' = 1 /\ ri' = 1
  /\ results' = <<>> /\ copied_hashes' = {} /\ result_dict' = EmptyDict
  /\ user_reports' = <<>>
  /\ compared' = {}
  /\ written' = {} /\ completed' = <<>> /\ qualified' = {} /\ lastCmp' = NoCmp
  /\ UNCHANGED <<same_name_only, update_frequency, reportFiles, flushes,
                 uploaded, selVars, lifeVars, aggVars>>

ResumeNext ==
  \/ SkipStudent
  \/ BeginStudent
  \/ SkipPair
  \/ ComparePair
  \/ ComparatorRaises
  \/ FinishFile
  \/ FinishStudent
  \/ FinishStudentUploadRaises
  \/ FinalFlush
  \/ FinalFlushUploadRaises
  \/ Resume

SpecResume == Init /\ [][ResumeNext]_vars

\* ------------------------------------------- initialize() and then run()
\* a scan from the construction of the detector: the caller runs
\* initialize() and then run(); what the bucket lists, what the detector
\* finds and the reports an earlier scan with this scanID left are inputs
LifeInit ==
  /\ same_name_only \in BOOLEAN
  /\ update_frequency \in 1..MaxFreq
  /\ reportFiles \in SUBSET Students /\ reportsAtStart = reportFiles
  /\ prior = "none"
  /\ pc = "new" /\ raised = "" /\ si = 1 /\ fi = 1 /\ ri = 1
  /\ results = <<>> /\ copied_hashes = {} /\ result_dict = EmptyDict
  /\ user_reports = <<>>
  /\ flushes = <<>> /\ uploaded = {} /\ compared = {}
  /\ written = {} /\ completed = <<>> /\ qualified = {} /\ lastCmp = NoCmp
  /\ sListed \in BOOLEAN /\ bListed \in BOOLEAN /\ fsd \in BOOLEAN
  /\ testFound \in BOOLEAN /\ refFound \in BOOLEAN
  /\ statusPushes = <<>> /\ sinkLog = <<>>
  /\ users_to_scan = None
  /\ SelIdle
  /\ AggIdle

\* an exception leaves initialize(): nothing else changes
InitializeRaises(exc) ==
  /\ pc' = "failed" /\ raised' = exc
  /\ UNCHANGED <<same_name_only, update_frequency, reportFiles, si, fi, ri,
                 results, copied_hashes, result_dict, user_reports, flushes,
                 uploaded, compared, reportsAtStart, prior, written,
                 completed, qualified, lastCmp, selVars, lifeVars, aggVars>>

\* download_files: the bucket lists no object under sprefix or under bprefix
DownloadNoFiles ==
  /\ pc = "new"
  /\ ~sListed \/ ~bListed
  /\ InitializeRaises("NoFilesFoundError")

\* download_files: `if self.fsd: raise NotImplementedError`
DownloadNotImplemented ==
  /\ pc = "new"
  /\ sListed /\ bListed /\ fsd
  /\ InitializeRaises("NotImplementedError")

\* download_files: a call of download_files_for_codeeval raises (S3, or the
\* AttributeError of a key without users/<id>/)
DownloadRaises ==
  /\ pc = "new"
  /\ sListed /\ bListed /\ ~fsd
  /\ InitializeRaises("download_files_for_codeeval")

\* download_files returns and initialize() pushes the status DOWNLOADED
PushDownloaded ==
  /\ pc = "new"
  /\ sListed /\ bListed /\ ~fsd
  /\ statusPushes' = make_request(statusPushes, DownloadedStatus)
  /\ pc' = "downloaded"
  /\ UNCHANGED <<raised, same_name_only, update_frequency, reportFiles, si,
                 fi, ri,
                 results, copied_hashes, result_dict, user_reports, flushes,
                 uploaded, compared, reportsAtStart, prior, written,
                 completed, qualified, lastCmp, selVars, sListed, bListed,
                 fsd, testFound, refFound, sinkLog, users_to_scan,
                 aggVars>>

\* the detector is built: len(detector.test_files) == 0 or
\* len(detector.ref_files) == 0
DetectorNoFiles ==
  /\ pc = "downloaded"
  /\ ~testFound \/ ~refFound
  /\ InitializeRaises("NoFilesFoundError")

\* initialize() returns and the caller calls run(), which fingerprints, groups
\* the test files by student and reaches the student loop
EnterRun ==
  /\ pc = "downloaded"
  /\ testFound /\ refFound
  /\ pc' = "loop"
  /\ UNCHANGED <<raised, same_name_only, update_frequency, reportFiles, si,
                 fi, ri,
                 results, copied_hashes, result_dict, user_reports, flushes,
                 uploaded, compared, reportsAtStart, prior, written,
                 completed, qualified, lastCmp, selVars, lifeVars, aggVars>>

LifeNext ==
  \/ DownloadNoFiles
  \/ DownloadNotImplemented
  \/ DownloadRaises
  \/ PushDownloaded
  \/ DetectorNoFiles
  \/ EnterRun
  \/ SkipStudent
  \/ BeginStudent
  \/ SkipPair
  \/ ComparePair
  \/ ComparatorRaises
  \/ FinishFile
  \/ FinishStudent
  \/ FinishStudentUploadRaises
  \/ FinalFlush
  \/ FinalFlushUploadRaises

SpecLife == LifeInit /\ [][LifeNext]_vars

\* the lifecycle state of the scan, read off the position of the code:
\* constructed, DOWNLOADED pushed, in the student loop, run() returned, an
\* exception left initialize() or run()
Status ==
  CASE pc = "new" -> "PENDING"
    [] pc = "downloaded" -> "DOWNLOADED"
    [] pc \in {"loop", "files"} -> "RUNNING"
    [] pc = "done" -> "COMPLETED"
    [] pc = "failed" -> "FAILED"
    [] OTHER -> "NONE"

\* --------------------------------- a scan whose status sink may be down
make_request_raised(sink, data, next) ==
  [sink |-> sink, log |-> sinkLog, pc |-> "failed"]

\* make_request when the push does not reach the sink: the failure is
\* logged, nothing is delivered, and the call returns to its caller, which
\* goes on to `next`
make_request_failed(sink, data, next) ==
  [sink |-> sink, log |-> Append(sinkLog, data), pc |-> next]

\* a scan in which everything is found and no report exists yet
SinkInit ==
  /\ same_name_only = TRUE
  /\ update_frequency \in 1..MaxFreq
  /\ reportFiles = {} /\ reportsAtStart = {} /\ prior = "none"
  /\ pc = "new" /\ raised = "" /\ si = 1 /\ fi = 1 /\ ri = 1
  /\ results = <<>> /\ copied_hashes = {} /\ result_dict = EmptyDict
  /\ user_reports = <<>>
  /\ flushes = <<>> /\ uploaded = {} /\ compared = {}
  /\ written = {} /\ completed = <<>> /\ qualified = {} /\ lastCmp = NoCmp
  /\ Downloading
  /\ SelIdle
  /\ AggIdle

\* download_files returns and the push of DOWNLOADED does not reach the sink
PushDownloadedFails ==
  /\ pc = "new"
  /\ sListed /\ bListed /\ ~fsd
  /\ LET r == make_request_failed(statusPushes, DownloadedStatus,
                                  "downloaded")
     IN  /\ statusPushes' = r.sink /\ sinkLog' = r.log /\ pc' = r.pc
         /\ raised' = IF r.pc = "failed" THEN "make_request" ELSE raised
  /\ UNCHANGED <<same_name_only, update_frequency, reportFiles, si,
                 fi, ri,
                 results, copied_hashes, result_dict, user_reports, flushes,
                 uploaded, compared, reportsAtStart, prior, written,
                 completed, qualified, lastCmp, selVars, sListed, bListed,
                 fsd, testFound, refFound, users_to_scan, aggVars>>

\* the batch is due and uploaded, and the push of the batch update does not
\* reach the sink
FinishStudentPushFails ==
  /\ AtStudentEnd
  /\ FlushDue(Recorded)
  /\ WriteReport
  /\ uploaded' = uploaded \cup StudentsIn(Recorded)
  /\ LET r == make_request_failed(flushes,
                [kind |-> "auto", reports |-> FinalReports(Recorded)], "loop")
     IN  /\ flushes' = r.sink /\ sinkLog' = r.log /\ pc' = r.pc
         /\ raised' = IF r.pc = "failed" THEN "make_request" ELSE raised
         /\ IF r.pc = "failed"
              THEN /\ user_reports' = Recorded
                   /\ UNCHANGED <<si, completed>>
              ELSE /\ user_reports' = <<>>
                   /\ si' = si + 1
                   /\ completed' = Append(completed, student)
  /\ DropLocals
  /\ UNCHANGED <<same_name_only, update_frequency, compared,
                 reportsAtStart, prior, selVars, sListed, bListed, fsd,
                 testFound, refFound, statusPushes, users_to_scan,
                 aggVars>>

\* the remaining reports are uploaded after the loop, and the push of the
\* batch update does not reach the sink
FinalFlushPushFails ==
  /\ AtLoopEnd
  /\ Remaining(user_reports)
  /\ uploaded' = uploaded \cup StudentsIn(user_reports)
  /\ LET r == make_request_failed(flushes,
                [kind |-> "final", reports |-> FinalReports(user_reports)],
                "done")
     IN  /\ flushes' = r.sink /\ sinkLog' = r.log /\ pc' = r.pc
         /\ raised' = IF r.pc = "failed" THEN "make_request" ELSE raised
  /\ UNCHANGED <<same_name_only, update_frequency, reportFiles, si, fi, ri,
                 results, copied_hashes, result_dict, user_reports,
                 compared, reportsAtStart, prior, written, completed,
                 qualified, lastCmp, selVars, sListed, bListed, fsd,
                 testFound, refFound, statusPushes, users_to_scan,
                 aggVars>>

SinkNext ==
  \/ PushDownloaded
  \/ PushDownloadedFails
  \/ EnterRun
  \/ BeginStudent
  \/ SkipPair
  \/ ComparePair
  \/ ComparatorRaises
  \/ FinishFile
  \/ FinishStudent
  \/ FinishStudentPushFails
  \/ FinishStudentUploadRaises
  \/ FinalFlush
  \/ FinalFlushPushFails
  \/ FinalFlushUploadRaises

SpecSink == SinkInit /\ [][SinkNext]_vars

\* ----------------------------------------- run() with a users_to_scan list
\* the ids a users_to_scan list can hold: the students and one id without
\* submissions
UserIds == 1..(NumStudents + 1)

\* run() entered with users_to_scan None or a list, no report existing yet
FilterInit ==
  /\ same_name_only = TRUE
  /\ update_frequency \in 1..MaxFreq
  /\ reportFiles = {} /\ reportsAtStart = {} /\ prior = "none"
  /\ FreshRun
  /\ sListed = TRUE /\ bListed = TRUE /\ fsd = FALSE
  /\ testFound = TRUE /\ refFound = TRUE
  /\ statusPushes = make_request(<<>>, DownloadedStatus)
  /\ sinkLog = <<>>
  /\ users_to_scan \in {None} \cup {UserList(S) : S \in SUBSET UserIds}
  /\ SelIdle
  /\ AggIdle

FilterNext ==
  \/ BeginStudent
  \/ SkipPair
  \/ ComparePair
  \/ ComparatorRaises
  \/ FinishFile
  \/ FinishStudent
  \/ FinishStudentUploadRaises
  \/ FinalFlush
  \/ FinalFlushUploadRaises

SpecFilter == FilterInit /\ [][FilterNext]_vars

\* ------------------------------------------- filter_files_for_codeeval
\* a listed object: a submission file under users/<user>/attempts/<attempt>/,
\* a key that contains 'Reports', or a key without a users/<id>/ segment
\* (such as the key of the prefix itself)
Objects ==
  [kind : {"file"}, user : 1..NumUsers, attempt : 0..MaxAttempt]
    \cup {[kind |-> "report", user |-> 0, attempt |-> 0],
          [kind |-> "malformed", user |-> 0, attempt |-> 0]}

\* d[k] of a defaultdict(int) read
Get(d, k) == IF k \in DOMAIN d THEN d[k] ELSE 0

\* d with k present: reading d[k] of a defaultdict inserts the default
Touch(d, k) == IF k \in DOMAIN d THEN d ELSE (k :> 0) @@ d

\* d[k] = v
Put(d, k, v) == [x \in DOMAIN d \cup {k} |-> IF x = k THEN v ELSE d[x]]

IsLaterDifferent(attempt, latest) == attempt # latest

\* attempt > user_latest_attempt[user_id]
IsLater(attempt, latest) == attempt > latest

RunIdle ==
  /\ same_name_only = TRUE /\ update_frequency = 1
  /\ reportFiles = {} /\ reportsAtStart = {} /\ prior = "none"
  /\ pc = "idle" /\ raised = "" /\ si = 1 /\ fi = 1 /\ ri = 1
  /\ results = <<>> /\ copied_hashes = {} /\ result_dict = EmptyDict
  /\ user_reports = <<>>
  /\ flushes = <<>> /\ uploaded = {} /\ compared = {}
  /\ written = {} /\ completed = <<>> /\ qualified = {} /\ lastCmp = NoCmp

\* the call filter_files_for_codeeval(bucket, prefix, boilerplate=False):
\* objs is what bucket.objects.filter(Prefix=prefix) lists, in its order
SelInit ==
  /\ objs \in UNION {[1..n -> Objects] : n \in 0..MaxObjs}
  /\ oi = 1 /\ selPc = "scan"
  /\ files_dict = EmptyDict /\ user_latest_attempt = EmptyDict
  /\ RunIdle
  /\ Downloading
  /\ AggIdle

obj == objs[oi]

\* `if 'Reports' in obj.key: continue`
SelSkipReport ==
  /\ selPc = "scan" /\ oi <= Len(objs)
  /\ obj.kind = "report"
  /\ oi' = oi + 1
  /\ UNCHANGED <<objs, files_dict, user_latest_attempt, selPc, runVars, lifeVars,
                 aggVars>>

\* one submission file: it replaces the user's file if its attempt is later;
\* the position oi stands for obj.key
SelFile ==
  /\ selPc = "scan" /\ oi <= Len(objs)
  /\ obj.kind = "file"
  /\ IF IsLater(obj.attempt, Get(user_latest_attempt, obj.user))
       THEN /\ user_latest_attempt' =
                 Put(user_latest_attempt, obj.user, obj.attempt)
            /\ files_dict' = Put(files_dict, obj.user, oi)
       ELSE /\ user_latest_attempt' = Touch(user_latest_attempt, obj.user)
            /\ UNCHANGED files_dict
  /\ oi' = oi + 1
  /\ UNCHANGED <<objs, selPc, runVars, lifeVars,
                 aggVars>>

\* re.search(r'users/(\d+)/', obj.key) is None: .group(1) raises
\* AttributeError, which leaves filter_files_for_codeeval and its callers
SelMalformed ==
  /\ selPc = "scan" /\ oi <= Len(objs)
  /\ obj.kind = "malformed"
  /\ selPc' = "failed"
  /\ UNCHANGED <<objs, oi, files_dict, user_latest_attempt, runVars,
                 lifeVars, aggVars>>

\* files = list(files_dict.values()); return files
SelReturn ==
  /\ selPc = "scan" /\ oi > Len(objs)
  /\ selPc' = "done"
  /\ UNCHANGED <<objs, oi, files_dict, user_latest_attempt, runVars,
                 lifeVars, aggVars>>

SelNext == SelSkipReport \/ SelFile \/ SelMalformed \/ SelReturn

\* the AttributeError of a key without users/<id>/, as a value
Raised == (0 :> 0)

\* filter_files_for_codeeval over the listing `keys` (positions of objs,
\* standing for the keys of the objects), from position i with the locals
\* fd (files_dict) and la (user_latest_attempt): the files_dict it ends with
RECURSIVE FilterFrom(_, _, _, _)
FilterFrom(keys, i, fd, la) ==
  IF i > Len(keys) THEN fd
  ELSE LET o == objs[keys[i]]
       IN  IF o.kind = "report" THEN FilterFrom(keys, i + 1, fd, la)
           ELSE IF o.kind = "malformed" THEN Raised
           ELSE IF IsLater(o.attempt, Get(la, o.user))
             THEN FilterFrom(keys, i + 1, Put(fd, o.user, keys[i]),
                             Put(la, o.user, o.attempt))
             ELSE FilterFrom(keys, i + 1, fd, Touch(la, o.user))

\* filter_files_for_codeeval applied to a listing of exactly these keys
SelectLatest(keys) == FilterFrom(keys, 1, EmptyDict, EmptyDict)

SpecSelect == SelInit /\ [][SelNext]_vars

\* ------------------------------ the reference loop of run() for one file
\* the reference loop for test file t, over the references in the order
\* `order` (positions of ref_files), cmp[k] being what compare_files returns
\* for the k-th reference: results and copied_hashes when the loop ends
RECURSIVE AggregateFrom(_, _, _, _, _, _)
AggregateFrom(t, order, cmp, i, res, copied) ==
  IF i > Len(order) THEN [results |-> res, copied_hashes |-> copied]
  ELSE LET r == ref_files[order[i]]
       IN  IF Excluded(t, r)
             THEN AggregateFrom(t, order, cmp, i + 1, res, copied)
           ELSE IF AboveThreshold(cmp[order[i]].sim1, cmp[order[i]].sim2)
             THEN AggregateFrom(t, order, cmp, i + 1,
                    Append(res,
                      [ref_file |-> r,
                       test_similarity |-> cmp[order[i]].sim1,
                       ref_similarity |-> cmp[order[i]].sim2,
                       hashes_overlap1 |-> cmp[order[i]].hashes_overlap1]),
                    Union1d(copied, cmp[order[i]].hashes_overlap1))
             ELSE AggregateFrom(t, order, cmp, i + 1, res, copied)

\* result_dict[t] after the reference loop, as a sequence: empty when the
\* file is not recorded
FileVerdict(t, order, cmp) ==
  LET agg == AggregateFrom(t, order, cmp, 1, <<>>, {})
  IN  IF RecordFile(agg.copied_hashes, agg.results)
        THEN <<[score |-> Score(agg.copied_hashes, t),
                results |-> agg.results]>>
        ELSE <<>>

AllTestFiles ==
  UNION {{TestFilesOf(s)[i] : i \in 1..Len(TestFilesOf(s))} : s \in Students}

\* the positions of the references the comparator is called with for t
Eligible(t) == {k \in 1..Len(ref_files) : ~Excluded(t, ref_files[k])}

\* one test file, what the comparator returns for each of its eligible
\* references, and a second order of the references
AggInit ==
  /\ RunIdle
  /\ SelIdle
  /\ Initialized
  /\ aggTest \in AllTestFiles
  /\ aggCmp \in [Eligible(aggTest) -> CompareResults(aggTest, aggTest)]
  /\ aggPerm \in Listings(1..Len(ref_files))
  /\ aggOut = <<>>

\* the reference loop is run in the order of ref_files and in the second
\* order, over the same comparator results
AggApply ==
  /\ aggOut = <<>>
  /\ aggOut' = <<FileVerdict(aggTest, [k \in 1..Len(ref_files) |-> k], aggCmp),
                 FileVerdict(aggTest, aggPerm, aggCmp)>>
  /\ UNCHANGED <<runVars, selVars, lifeVars, aggTest, aggCmp, aggPerm>>

AggNext == AggApply

SpecAgg == AggInit /\ [][AggNext]_vars

\* ================================================================ claims
Range(q) == {q[i] : i \in 1..Len(q)}

\* the hashes of the entries of an evidence list, united
OverlapUnion(res) == UNION {res[i].hashes_overlap1 : i \in 1..Len(res)}

\* the students a flush delivered to the status sink
Delivered(fl) == {fl.reports[i].student : i \in 1..Len(fl.reports)}
DeliveredAll == UNION {Delivered(flushes[i]) : i \in 1..Len(flushes)}

FlushesOf(kind) == {i \in 1..Len(flushes) : flushes[i].kind = kind}

\* C1: the score of every file of the verdict is the size of the union of
\* the overlap hashes of its above-threshold results over the file's total
\* hash count, and the hashes accumulated so far for the current file are
\* the union of the overlap hashes of the results kept so far.
ScoreIsUnionOverTotal ==
  /\ \A f \in DOMAIN result_dict :
        result_dict[f].score =
          <<Cardinality(OverlapUnion(result_dict[f].results)),
            Cardinality(HashesOf(f))>>
  /\ copied_hashes = OverlapUnion(results)

\* C1 witness: a scored file with two results whose overlaps share a hash,
\* so that the union is smaller than the sum of the sizes.
ScoreUnionWitness ==
  \E f \in DOMAIN result_dict :
    LET res == result_dict[f].results
    IN /\ Len(res) = 2
       /\ res[1].hashes_overlap1 \cap res[2].hashes_overlap1 # {}
       /\ res[1].hashes_overlap1 # res[2].hashes_overlap1
       /\ result_dict[f].score[1] <
            Cardinality(res[1].hashes_overlap1)
              + Cardinality(res[2].hashes_overlap1)

\* C2 (as claimed): a run that follows a run that returned normally, with
\* the same inputs, makes no comparator call and no batch status update.
ResumeDoesNothing ==
  prior = "done" => compared = {} /\ flushes = <<>>

\* C3 (as claimed): every student the run completed, flagged or clean, has
\* a checkpoint (its report file exists).
CheckpointAfterEveryStudent ==
  \A s \in Range(completed) : ReportExists(s)

\* C4: a student whose report existed when the run started is skipped: no
\* comparator call for its files, no report written or uploaded, not in the
\* pending batch nor in a status update; every student the loop has passed
\* that had no report was processed.
CheckpointedStudentsSkipped ==
  /\ \A s \in reportsAtStart :
        /\ \A p \in compared : p[1] \notin Range(TestFilesOf(s))
        /\ s \notin written /\ s \notin uploaded
        /\ s \notin StudentsIn(user_reports)
        /\ s \notin DeliveredAll
        /\ s \notin Range(completed)
  /\ \A i \in 1..(si - 1) :
          Order[i] \notin reportsAtStart => Order[i] \in Range(completed)

\* C4 witness: a resumed run that returned after skipping one student and
\* comparing the files of another.
SkipWitness ==
  /\ pc = "done" /\ prior = "failed"
  /\ reportsAtStart # {} /\ compared # {}
  /\ Len(completed) > 0

PendingDeliveredOnExit ==
  (pc = "done" \/ (pc = "failed" /\ raised = "compare_files"))
    => StudentsIn(user_reports) \subseteq DeliveredAll

\* C7: a comparator result is appended to the evidence, and its hashes
\* united into the accumulated set, exactly when one of its similarities is
\* strictly above the display threshold; otherwise neither changes.
ThresholdStrict ==
  [][lastCmp' # NoCmp =>
       IF lastCmp'.sim1 > DisplayT \/ lastCmp'.sim2 > DisplayT
         THEN /\ results' = Append(results,
                    [ref_file |-> lastCmp'.ref_f,
                     test_similarity |-> lastCmp'.sim1,
                     ref_similarity |-> lastCmp'.sim2,
                     hashes_overlap1 |-> lastCmp'.hashes_overlap1])
              /\ copied_hashes' = copied_hashes \cup lastCmp'.hashes_overlap1
         ELSE results' = results /\ copied_hashes' = copied_hashes]_vars

\* C7 witness: a result with test similarity just above the threshold was
\* kept, and the next one, with both similarities equal to the threshold
\* and a non-empty overlap, was not.
ThresholdWitness ==
  /\ Len(results) = 1
  /\ results[1].test_similarity = DisplayT + 1
  /\ results[1].ref_similarity = DisplayT - 1
  /\ lastCmp # NoCmp
  /\ lastCmp.sim1 = DisplayT /\ lastCmp.sim2 = DisplayT
  /\ lastCmp.hashes_overlap1 # {}
  /\ lastCmp.ref_f # results[1].ref_file

\* the test files of the current student whose reference loop has ended
FinishedFiles ==
  IF pc = "files" THEN {test_files[i] : i \in 1..(fi - 1)} ELSE {}

\* C8: every file of the verdict had a result strictly above the display
\* threshold, has a non-empty evidence list and a score above 0; a finished
\* file without such a result is absent from the verdict.  (The report
\* written to disk is result_dict as it stands when the student ends.)
VerdictOnlyFlagged ==
  /\ \A f \in DOMAIN result_dict :
        /\ f \in qualified
        /\ Len(result_dict[f].results) > 0
        /\ \E i \in 1..Len(result_dict[f].results) :
             \/ result_dict[f].results[i].test_similarity > DisplayT
             \/ result_dict[f].results[i].ref_similarity > DisplayT
        /\ result_dict[f].score[1] > 0
  /\ DOMAIN result_dict \subseteq FinishedFiles
  /\ \A f \in FinishedFiles : f \notin qualified => f \notin DOMAIN result_dict

\* C8 witness: a student with two compared files, both finished: one is in
\* the verdict, the other, which had no result above the threshold, is not.
VerdictWitness ==
  /\ pc = "files" /\ fi > Len(test_files)
  /\ Cardinality(DOMAIN result_dict) = 1
  /\ \E f \in FinishedFiles :
       /\ f \notin DOMAIN result_dict
       /\ \E p \in compared : p[1] = f

\* C9: the comparator is called only for pairs of two distinct fingerprinted
\* files with the same extension, in different directories (ignore_leaf is
\* on), and with the same base name when same_name_only is on; every
\* evidence entry is of a pair the comparator was called for.
ComparatorOnlyEligible ==
  /\ \A p \in compared :
        /\ p[1] \in FileData /\ p[2] \in FileData
        /\ p[1] # p[2]
        /\ same_name_only => Name(p[1]) = Name(p[2])
        /\ ignore_leaf => Parent(p[1]) # Parent(p[2])
        /\ Suffix(p[1]) = Suffix(p[2])
  /\ \A f \in DOMAIN result_dict :
        \A i \in 1..Len(result_dict[f].results) :
          <<f, result_dict[f].results[i].ref_file>> \in compared
  /\ \A i \in 1..Len(results) : <<test_f, results[i].ref_file>> \in compared

\* C9 witness: a run returned, with comparisons made, having passed a test
\* file and a reference file that have no fingerprint.
ExclusionWitness ==
  /\ pc = "done" /\ compared # {} /\ prior = "none"
  /\ Len(completed) = NumStudents
  /\ \E s \in Students : Range(TestFilesOf(s)) \ FileData # {}
  /\ Range(ref_files) \ FileData # {}

\* the submission files of user u among the listed objects
FilesOfUser(u) ==
  {i \in 1..Len(objs) : objs[i].kind = "file" /\ objs[i].user = u}

\* C10 (as claimed): when the selection returns, every user with a
\* submission file (attempt numbers from 0) is mapped to the first listed of
\* its files with the maximum attempt number.
SelectLatestPicksMax ==
  selPc = "done" =>
    \A u \in 1..NumUsers :
      FilesOfUser(u) # {} =>
        /\ u \in DOMAIN files_dict
        /\ files_dict[u] \in FilesOfUser(u)
        /\ \A j \in FilesOfUser(u) :
             \/ objs[j].attempt < objs[files_dict[u]].attempt
             \/ (objs[j].attempt = objs[files_dict[u]].attempt
                   /\ files_dict[u] <= j)

\* list(files_dict.values()) as a set of keys
Returned == {files_dict[u] : u \in DOMAIN files_dict}

\* C11: the selection is idempotent: when it has returned, applying it again
\* to a listing of exactly the files it returned, in whatever order, yields
\* the same user -> file mapping (and applying it to the original listing
\* yields the mapping the first application ended with).
SelectLatestIdempotent ==
  selPc = "done" =>
    /\ SelectLatest([i \in 1..Len(objs) |-> i]) = files_dict
    /\ \A keys \in Listings(Returned) : SelectLatest(keys) = files_dict

\* C11 witness: the selection returned a file for every user, out of a
\* listing in which one user had several attempts, so that the second
\* application sees fewer files than the first.
IdempotentWitness ==
  /\ selPc = "done"
  /\ DOMAIN files_dict = 1..NumUsers
  /\ Cardinality(Returned) < Len(objs)
  /\ \E u \in 1..NumUsers : Cardinality(FilesOfUser(u)) > 1

Rank(st) ==
  CASE st = "PENDING" -> 0
    [] st = "DOWNLOADED" -> 1
    [] st = "RUNNING" -> 2
    [] OTHER -> 3

\* C12: the scan starts PENDING; every step leaves the status where it is or
\* moves it forward along PENDING, DOWNLOADED, RUNNING, {COMPLETED, FAILED};
\* once it is COMPLETED or FAILED it never changes and nothing more is
\* pushed to the status sink; a status that is pushed is the status the scan
\* has just moved to.
StatusMovesForward ==
  /\ Status = "PENDING"
  /\ [][/\ Rank(Status') >= Rank(Status)
        /\ Status \in {"COMPLETED", "FAILED"} =>
              /\ Status' = Status
              /\ statusPushes' = statusPushes /\ flushes' = flushes
        /\ statusPushes' # statusPushes =>
              statusPushes' = Append(statusPushes, Status')]_vars

\* C12 witness: a scan went through every state up to COMPLETED, having
\* pushed DOWNLOADED and delivered batch updates on the way.
LifecycleWitness ==
  /\ Status = "COMPLETED" /\ prior = "none"
  /\ statusPushes = <<"DOWNLOADED">>
  /\ Len(completed) = NumStudents /\ flushes # <<>>

\* C13 (as claimed): a scan that ended with an exception, before or after
\* DOWNLOADED or in the student loop, has pushed the status FAILED to the
\* status sink as its last status.
FailureIsPushed ==
  Status = "FAILED" =>
    /\ statusPushes # <<>>
    /\ statusPushes[Len(statusPushes)] = "FAILED"

DownloadedOnlyWithMaterial ==
  DownloadedStatus \in Range(statusPushes) => testFound /\ refFound

\* the entries of all the batch updates delivered so far
DeliveredEntries ==
  UNION {Range(flushes[i].reports) : i \in 1..Len(flushes)}

\* C16: every student the run completed, flagged or clean, is in the pending
\* batch or in a delivered batch update; a clean student (no report
\* written) is there with the empty location '' in the batch and with the
\* placeholder key of '' in the update, a flagged one with its report; and
\* when run() has returned every completed student has been delivered.
CleanStudentsReported ==
  /\ Range(completed) \subseteq StudentsIn(user_reports) \cup DeliveredAll
  /\ \A e \in Range(user_reports) :
        e.report_file =
          IF e.student \in written THEN ReportPath(e.student) ELSE <<>>
  /\ \A e \in DeliveredEntries :
        e.s3_key =
          IF e.student \in written THEN S3Key(ReportPath(e.student))
                                   ELSE S3Key(<<>>)
  /\ pc = "done" => Range(completed) \subseteq DeliveredAll

\* C16 witness: run() returned having completed a clean student and a
\* flagged one, both delivered, the clean one with the placeholder key.
CleanWitness ==
  /\ pc = "done"
  /\ Range(completed) \cap written # {}
  /\ \E e \in DeliveredEntries :
       /\ e.student \in Range(completed) \ written
       /\ e.s3_key = S3Key(<<>>)

\* C17 (as claimed): a key without a users/<id>/ segment is skipped: the
\* selection never ends with an exception.
MalformedKeysSkipped ==
  selPc # "failed"

\* C18: the reference loop run over the same comparator results in two
\* orders of the references records the file in both or in neither, with
\* the same score and the same set of evidence entries.
ScoreOrderIndependent ==
  aggOut # <<>> =>
    /\ Len(aggOut[1]) = Len(aggOut[2])
    /\ aggOut[1] # <<>> =>
          /\ aggOut[1][1].score = aggOut[2][1].score
          /\ Range(aggOut[1][1].results) = Range(aggOut[2][1].results)

\* C18 witness: a file recorded with two evidence entries of different
\* overlaps, neither containing the other, listed in opposite orders by the
\* two runs.
OrderWitness ==
  /\ aggOut # <<>> /\ aggOut[1] # <<>>
  /\ Len(aggOut[1][1].results) = 2
  /\ aggOut[2][1].results =
       <<aggOut[1][1].results[2], aggOut[1][1].results[1]>>
  /\ LET a == aggOut[1][1].results[1].hashes_overlap1
         b == aggOut[1][1].results[2].hashes_overlap1
     IN  a \ b # {} /\ b \ a # {}

\* C19 (as claimed): an exception of the comparator on one pair does not
\* abort the scan: run() never ends with the comparator's exception.
ComparatorFailureRecoverable ==
  ~(pc = "failed" /\ raised = "compare_files")

\* C24: the pending batch never holds more than update_frequency entries,
\* and whenever an iteration of the student loop starts or is under way it
\* holds strictly fewer.
PendingBatchBounded ==
  /\ Len(user_reports) <= update_frequency
  /\ pc \in {"loop", "files"} => Len(user_reports) < update_frequency

\* C24 witness: the last student's iteration under way with the batch one
\* entry below update_frequency, every earlier student being in it.
BatchBoundWitness ==
  /\ pc = "files" /\ si = NumStudents
  /\ update_frequency = NumStudents
  /\ Len(user_reports) = update_frequency - 1

FlushBatch == IF pc = "files" THEN Recorded ELSE user_reports

\* C22: every student of a delivered batch update has been uploaded; a step
\* that sends a status update sends exactly one, carrying the location of
\* every student of the batch, after all of them were uploaded, and the
\* automatic flush leaves the batch empty; a step in which an upload raises
\* sends no status update, and reports are uploaded without a status
\* update only in such a step.
FlushStepsOrdered ==
  /\ [](DeliveredAll \subseteq uploaded)
  /\ [][/\ flushes' # flushes =>
             /\ flushes' =
                  Append(flushes,
                         [kind |-> IF pc = "files" THEN "auto" ELSE "final",
                          reports |-> FinalReports(FlushBatch)])
             /\ StudentsIn(FlushBatch) \subseteq uploaded'
             /\ pc = "files" => user_reports' = <<>>
        /\ (raised' = "upload_file" /\ raised = "") => flushes' = flushes
        /\ (uploaded' # uploaded /\ flushes' = flushes) =>
             raised' = "upload_file"]_vars

\* C22 witness: an automatic flush of a batch of two students has been
\* delivered and the batch is empty again.
FlushOrderWitness ==
  /\ pc = "loop" /\ user_reports = <<>>
  /\ Len(flushes) = 1 /\ flushes[1].kind = "auto"
  /\ Len(flushes[1].reports) = 2
  /\ Delivered(flushes[1]) \subseteq uploaded

\* C23 (as claimed): when the resumption of an interrupted run has returned,
\* every student whose report is on disk has been delivered to the status
\* sink in a batch update of the interrupted run or of the resumption.
CheckpointedAreReported ==
  (pc = "done" /\ prior = "failed") => reportFiles \subseteq DeliveredAll

ToScan ==
  IF users_to_scan.none \/ users_to_scan.list = {}
    THEN Students
    ELSE {st \in Students : st \in users_to_scan.list}

\* C25: the student loop iterates over exactly the students to scan; only
\* files of such students are compared, only their reports are written,
\* uploaded, batched or delivered; and a run that returns has completed
\* exactly these students.
UserFilterExact ==
  /\ Range(Order) = ToScan
  /\ \A p \in compared : Parent(p[1]) \in ToScan
  /\ written \subseteq ToScan /\ reportFiles \subseteq ToScan
  /\ uploaded \subseteq ToScan
  /\ StudentsIn(user_reports) \subseteq ToScan
  /\ DeliveredAll \subseteq ToScan
  /\ Range(completed) \subseteq ToScan
  /\ pc = "done" => Range(completed) = ToScan

\* C25 witness: with a list naming one student and an id without
\* submissions, the run returned having compared and delivered that student
\* only.
UserFilterWitness ==
  /\ pc = "done"
  /\ users_to_scan = UserList({2, NumStudents + 1})
  /\ Range(completed) = {2} /\ DeliveredAll = {2}
  /\ compared # {}
====
